---- MODULE Spec2Model ----
(***************************************************************************)
(* Model of the drive scanner in src/src/main.rs: the entry classifier,    *)
(* the CSV delimiter sniffer, the blacklist predicate, and the sequential  *)
(* scan of the drive roots that prints one line per interesting entry.     *)
(*                                                                         *)
(* Representation.  A file name is a tuple of one-character strings, so    *)
(* that lowercasing and extension splitting are computed character by      *)
(* character.  Rendered text (paths, labels, report lines) is a string     *)
(* built with \o.  File content is run-length encoded: a tuple of runs     *)
(* <<c, n>> meaning n code points equal to c, which lets the real limit of *)
(* 50,000 code points be exercised.  Option<T> is a tuple of length 0 or 1.*)
(***************************************************************************)
EXTENDS Integers, Sequences, FiniteSets, TLC

\* ------------------------------------------------------------------ bounds
\* Number of drive letters scanned, counted from 'A' (the code scans 26).
NumDrives == 3
\* Longest file content, in runs.
MaxRuns == 2

\* ------------------------------------------------------- program constants
TAKE_LIMIT == 50000

\* char::default(), the code point U+0000, used as the "undetermined" sentinel.
NUL == "NUL"

PLATFORM_DIR_SEP == "\\"

None == <<>>
Some(x) == <<x>>

Min(a, b) == IF a <= b THEN a ELSE b

\* ----------------------------------------------------------------- strings
AsciiUpper ==
  <<"A","B","C","D","E","F","G","H","I","J","K","L","M",
    "N","O","P","Q","R","S","T","U","V","W","X","Y","Z">>

AsciiLower ==
  <<"a","b","c","d","e","f","g","h","i","j","k","l","m",
    "n","o","p","q","r","s","t","u","v","w","x","y","z">>

\* OsStr::to_string_lossy on a valid name: the characters, rendered as text.
RECURSIVE to_string_lossy(_)
to_string_lossy(name) ==
  IF name = <<>> THEN "" ELSE Head(name) \o to_string_lossy(Tail(name))

\* Variant that compares names case-sensitively.
to_ascii_lowercase_skipped(name) == name

\* str::to_ascii_lowercase: only A-Z change.
to_ascii_lowercase(name) ==
  [i \in 1..Len(name) |->
     IF \E k \in 1..26 : AsciiUpper[k] = name[i]
     THEN AsciiLower[CHOOSE k \in 1..26 : AsciiUpper[k] = name[i]]
     ELSE name[i]]

\* OptionFlatStringExt::to_lowercase
to_lowercase(opt) ==
  [i \in 1..Len(opt) |-> to_string_lossy(to_ascii_lowercase(opt[i]))]

\* ------------------------------------------------------------------- paths
\* An entry is [letter, comps, is_dir, content]: the drive letter, the path
\* components below the drive root, the file type and the readable content.

\* Path::file_name: the final component; None for the bare root "X:\".
file_name(e) ==
  IF e.comps = <<>> THEN None ELSE Some(e.comps[Len(e.comps)])

\* Path::extension: the part after the last dot of the file name; None when
\* there is no dot or when the only dot is the first character.
extension(e) ==
  IF file_name(e) = None THEN None
  ELSE LET n == file_name(e)[1]
           dots == {i \in 1..Len(n) : n[i] = "."}
           d == IF dots = {} THEN 0 ELSE CHOOSE i \in dots : \A j \in dots : j <= i
       IN IF d <= 1 THEN None ELSE Some(SubSeq(n, d + 1, Len(n)))

RECURSIVE JoinComps(_)
JoinComps(comps) ==
  IF comps = <<>> THEN ""
  ELSE IF Len(comps) = 1 THEN to_string_lossy(comps[1])
  ELSE to_string_lossy(Head(comps)) \o PLATFORM_DIR_SEP \o JoinComps(Tail(comps))

\* entry.path().display(): the root "X:\" joined with the components.
path_display(e) == e.letter \o ":" \o PLATFORM_DIR_SEP \o JoinComps(e.comps)

\* ---------------------------------------------------------------- PLATFORM
\* The user name read back from name_buf, whose length is still 0.
UserName == ""

PlatformValue ==
  [fs_dir_sep |-> "\\",
   sys_dir    |-> "C:\\Windows",
   user_dir   |-> "C:\\users\\" \o UserName,
   app_data   |-> "C:\\users\\" \o UserName \o "\\appdata",
   tmp_dir    |-> "C:\\users\\" \o UserName \o "\\appdata\\local\\temp"]

is_blacklisted(e, plat) ==
  IF file_name(e) = None THEN FALSE
  ELSE LET path == to_string_lossy(file_name(e)[1])
       IN path = plat.sys_dir \/ path = plat.tmp_dir

is_allowed(e, plat) == ~is_blacklisted(e, plat)

\* ------------------------------------------------------- delimiter sniffing
InitialSeps ==
  << <<NUL, 1>>, <<",", 0>>, <<"\t", 0>>, <<":", 0>>,
     <<";", 0>>, <<"|", 0>>, <<" ", 0>> >>

\* fs::read_to_string(path).unwrap_or_default()
read_to_string_or_default(content) ==
  IF content.readable THEN content.runs ELSE <<>>

\* csv_chars.chars().take(limit).filter(|c| c == sep).count()
RECURSIVE CountTake(_, _, _)
CountTake(runs, limit, sep) ==
  IF runs = <<>> \/ limit = 0 THEN 0
  ELSE LET n == Min(Head(runs)[2], limit)
       IN (IF Head(runs)[1] = sep THEN n ELSE 0)
          + CountTake(Tail(runs), limit - n, sep)

CountSeps(seps, chars) ==
  [i \in 1..Len(seps) |->
     <<seps[i][1], seps[i][2] + CountTake(chars, TAKE_LIMIT, seps[i][1])>>]

\* Variant that lets a later candidate overtake earlier ones of equal count.
RECURSIVE InsertUnstable(_, _)
InsertUnstable(x, sorted) ==
  IF sorted = <<>> THEN <<x>>
  ELSE IF Head(sorted)[2] < x[2] THEN <<x>> \o sorted
  ELSE <<Head(sorted)>> \o InsertUnstable(x, Tail(sorted))

\* Place x, which precedes every element of sorted in the original order,
\* into sorted (descending by count): before the first element whose count
\* is not greater than its own, so that equal counts keep their order.
RECURSIVE InsertStable(_, _)
InsertStable(x, sorted) ==
  IF sorted = <<>> THEN <<x>>
  ELSE IF Head(sorted)[2] <= x[2] THEN <<x>> \o sorted
  ELSE <<Head(sorted)>> \o InsertStable(x, Tail(sorted))

\* seps.sort_by(|a, b| b.1.cmp(&a.1)): a stable sort, descending by count.
RECURSIVE sort_by_count_desc(_)
sort_by_count_desc(seps) ==
  IF seps = <<>> THEN <<>>
  ELSE InsertStable(Head(seps), sort_by_count_desc(Tail(seps)))

sniff(content) ==
  sort_by_count_desc(CountSeps(InitialSeps, read_to_string_or_default(content)))[1][1]

\* ----------------------------------------------------------- classification
\* The extension arms of classify_file other than csv.
ExtensionClass(ext) ==
  IF ext = Some("xlsl") THEN <<"Spreadsheet", "Excel">>
  ELSE IF ext \in {Some("txt"), Some("log")} THEN <<"Document", "Text">>
  ELSE IF ext = Some("pdf") THEN <<"Document", "Pdf">>
  ELSE IF ext \in {Some("rtf"), Some("odt"), Some("xps"), Some("wps"), Some("dotx"),
                   Some("dotm"), Some("docx"), Some("docm"), Some("doc")}
       THEN <<"Document", "Word">>
  ELSE IF ext \in {Some("db"), Some("dump")} THEN <<"Database", "Db">>
  ELSE IF ext \in {Some("sqlite"), Some("sqlite3")} THEN <<"Database", "Sqlite">>
  ELSE IF ext \in {Some("sql"), Some("mysql"), Some("pgsql")} THEN <<"Database", "Sql">>
  ELSE IF ext = Some("pdb") THEN <<"Database", "Pdb">>
  ELSE IF ext = Some("yaml") THEN <<"Configuration", "Yaml">>
  ELSE IF ext = Some("json") THEN <<"Configuration", "Json">>
  ELSE IF ext = Some("ini") THEN <<"Configuration", "Ini">>
  ELSE IF ext = Some("zip") THEN <<"Archive", "Zip">>
  ELSE IF ext = Some("rar") THEN <<"Archive", "Rar">>
  ELSE <<"Regular">>

\* Variant that looks for "env" in the extension instead of ".env" in the name.
classify_file_by_extension(e) ==
  LET name == to_lowercase(file_name(e))
      ext  == to_lowercase(extension(e))
  IN IF ext = Some("env") THEN <<"Secret", "Env">>
     ELSE IF name # None
          THEN IF ext = Some("csv")
               THEN <<"Spreadsheet", "Csv", sniff(e.content)>>
               ELSE ExtensionClass(ext)
          ELSE <<"Regular">>

\* classify_file: the name ".env" first, then the extension.
classify_file(e) ==
  LET name == to_lowercase(file_name(e))
      ext  == to_lowercase(extension(e))
  IN IF name = Some(".env") THEN <<"Secret", "Env">>
     ELSE IF name # None
          THEN IF ext = Some("csv")
               THEN <<"Spreadsheet", "Csv", sniff(e.content)>>
               ELSE ExtensionClass(ext)
          ELSE <<"Regular">>

classify_dir(e) ==
  LET name == to_lowercase(file_name(e))
  IN IF name = Some(".git") THEN <<"VersionControl", "Git">>
     ELSE IF name = Some(".svn") THEN <<"VersionControl", "Svn">>
     ELSE <<"Regular">>

classify(e) ==
  IF e.is_dir THEN <<"Dir">> \o classify_dir(e)
  ELSE <<"File">> \o classify_file(e)

\* --------------------------------------------------------------- rendering
DisplayDir(c) ==
  IF c = <<"VersionControl", "Git">> THEN "git"
  ELSE IF c = <<"VersionControl", "Svn">> THEN "svn"
  ELSE ""

DisplayFile(c) ==
  IF c = <<"Secret", "Env">> THEN "dotenv"
  ELSE IF c = <<"Spreadsheet", "Excel">> THEN "excel"
  ELSE IF Len(c) = 3 /\ c[1] = "Spreadsheet" /\ c[2] = "Csv"
       THEN "csv('" \o c[3] \o "')"
  ELSE IF c = <<"Document", "Pdf">> THEN "pdf"
  ELSE IF c = <<"Document", "Text">> THEN "txt"
  ELSE IF c = <<"Document", "Word">> THEN "word"
  ELSE IF c = <<"Database", "Sqlite">> THEN "sqlite"
  ELSE IF c = <<"Database", "Sql">> THEN "sql"
  ELSE IF c = <<"Database", "Db">> THEN "db"
  ELSE IF c = <<"Database", "Pdb">> THEN "pdb"
  ELSE IF c = <<"Configuration", "Yaml">> THEN "yaml"
  ELSE IF c = <<"Configuration", "Json">> THEN "json"
  ELSE IF c = <<"Configuration", "Ini">> THEN "ini"
  ELSE IF c = <<"Archive", "Zip">> THEN "zip"
  ELSE IF c = <<"Archive", "Rar">> THEN "rar"
  ELSE ""

Display(c) ==
  IF Head(c) = "File" THEN DisplayFile(Tail(c)) ELSE DisplayDir(Tail(c))

\* Variant that forgets the Document(Text) arm.
is_suppressed_without_text(c) ==
  c \in { <<"File", "Regular">>,
          <<"File", "Spreadsheet", "Csv", NUL>>,
          <<"Dir", "Regular">> }

\* The `continue` arms of the match in scan_drive.
is_suppressed(c) ==
  c \in { <<"File", "Regular">>,
          <<"File", "Document", "Text">>,
          <<"File", "Spreadsheet", "Csv", NUL>>,
          <<"Dir", "Regular">> }

\* The body of the for loop in scan_drive: the lines printed for one entry.
report(e) ==
  LET classification == classify(e)
  IN IF is_suppressed(classification) THEN <<>>
     ELSE << path_display(e) \o " # " \o Display(classification) >>

\* ------------------------------------------------------------- file system
\* A drive is the pre-order listing the walk would produce for it: items
\* [depth, kind, name, content] with kind "dir", "file" or "err" (an entry
\* the walk fails on: a missing root, an unreadable directory's listing, a
\* dangling link, an entry that vanished).
ReadableText(runs) == [readable |-> TRUE, runs |-> runs]
Unreadable == [readable |-> FALSE, runs |-> <<>>]
Empty == ReadableText(<<>>)

Root == [depth |-> 0, kind |-> "dir", name |-> <<>>, content |-> Empty]
Dir(depth, name) == [depth |-> depth, kind |-> "dir", name |-> name, content |-> Empty]
File(depth, name, content) ==
  [depth |-> depth, kind |-> "file", name |-> name, content |-> content]
Err(depth) == [depth |-> depth, kind |-> "err", name |-> <<>>, content |-> Empty]

\* The drive does not exist: the walk fails on the root itself.
ImgAbsent == << Err(0) >>

ImgBare == << Root >>

ImgSecrets ==
  << Root,
     File(1, <<"s","e","c","r","e","t","s",".","e","n","v">>, Empty),
     File(1, <<".","e","n","v">>, Empty),
     File(1, <<"r","e","p","o","r","t",".","p","d","f">>, Empty),
     File(1, <<"n","o","t","e","s",".","t","x","t">>, Empty) >>

\* On drive C the directory Windows sits exactly at PLATFORM.sys_dir.
ImgWindows ==
  << Root,
     Dir(1, <<"W","i","n","d","o","w","s">>),
     File(2, <<".","E","N","V">>, Empty),
     Dir(2, <<".","g","i","t">>),
     File(3, <<"x",".","d","b">>, Empty),
     File(1, <<"a",".","z","i","p">>, Empty) >>

ImgErrors ==
  << Root,
     Err(1),
     Dir(1, <<"l","o","c","k","e","d">>),
     Err(2),
     File(1, <<"d","a","t","a",".","c","s","v">>, ReadableText(<< <<";", 2>>, <<"a", 1>> >>)),
     Err(1),
     File(1, <<"c","o","n","f","i","g",".","j","s","o","n">>, Unreadable) >>

ImgSheets ==
  << Root,
     File(1, <<"t",".","C","S","V">>, Unreadable),
     File(1, <<"t","i","e",".","c","s","v">>, ReadableText(<< <<",", 1>>, <<";", 1>> >>)),
     File(1, <<"b","o","o","k",".","x","l","s","x">>, Empty),
     File(1, <<"b","o","o","k",".","x","l","s","l">>, Empty),
     Dir(1, <<".","S","V","N">>),
     File(2, <<"d","a","t","a",".","c","s","v">>, ReadableText(<< <<"a", TAKE_LIMIT>>, <<",", 2>> >>)) >>

DriveImages == {ImgAbsent, ImgBare, ImgSecrets, ImgWindows, ImgErrors, ImgSheets}

Drives == 1..NumDrives
Letter(d) == AsciiUpper[d]

\* --------------------------------------------------------------- variables
VARIABLES
  fs,        \* drive number -> listing of that drive
  platform,  \* the Lazy PLATFORM: None until first forced
  letter,    \* main's loop variable, as a drive number
  pos,       \* position of scan_drive's iterator in the current listing
  out,       \* the lines printed to stdout so far
  pc,        \* "main", "walk", "done", "panicked"; "probe" when classifying one entry
  probe,     \* a single entry handed to the classifier
  verdict    \* None, or Some of its classification and report lines

vars == <<fs, platform, letter, pos, out, pc, probe, verdict>>

\* Index of the directory that contains item i.
Parent(img, i) ==
  CHOOSE j \in 1..(i - 1) :
    /\ img[j].depth = img[i].depth - 1
    /\ \A k \in (j + 1)..(i - 1) : img[k].depth >= img[i].depth

RECURSIVE Comps(_, _)
Comps(img, i) ==
  IF img[i].depth = 0 THEN <<>>
  ELSE Comps(img, Parent(img, i)) \o <<img[i].name>>

\* The DirEntry the walk yields for item i of drive d.
EntryAt(d, i) ==
  [letter  |-> Letter(d),
   comps   |-> Comps(fs[d], i),
   is_dir  |-> fs[d][i].kind = "dir",
   content |-> fs[d][i].content]

\* skip_current_dir: the first position after item i that is not below it.
AfterSubtree(img, i) ==
  IF \E j \in (i + 1)..Len(img) : img[j].depth <= img[i].depth
  THEN CHOOSE j \in (i + 1)..Len(img) :
         /\ img[j].depth <= img[i].depth
         /\ \A k \in (i + 1)..(j - 1) : img[k].depth > img[i].depth
  ELSE Len(img) + 1

NoProbe == [letter |-> "A", comps |-> <<>>, is_dir |-> TRUE, content |-> Empty]

Init ==
  /\ fs \in [Drives -> DriveImages]
  /\ platform = None
  /\ letter = 1
  /\ pos = 0
  /\ out = <<>>
  /\ pc = "main"
  /\ probe = NoProbe
  /\ verdict = None

\* main: the next letter of 'A'..='Z' is handed to scan_drive, which builds
\* the walker for "<letter>:\".
ScanDriveStart ==
  /\ pc = "main"
  /\ letter <= NumDrives
  /\ pc' = "walk"
  /\ pos' = 1
  /\ UNCHANGED <<fs, platform, letter, out, probe, verdict>>

\* Variant in which a walk error is propagated and ends the run.
WalkErrorAborts ==
  /\ pc = "walk"
  /\ pos <= Len(fs[letter])
  /\ fs[letter][pos].kind = "err"
  /\ pc' = "done"
  /\ UNCHANGED <<fs, platform, letter, pos, out, probe, verdict>>

\* The walk yields an error: filter_entry passes it through without calling
\* the predicate and filter_map(|e| e.ok()) drops it.
WalkError ==
  /\ pc = "walk"
  /\ pos <= Len(fs[letter])
  /\ fs[letter][pos].kind = "err"
  /\ pos' = pos + 1
  /\ UNCHANGED <<fs, platform, letter, out, pc, probe, verdict>>

\* Variant that puts the newest line first.
VisitEntryPrepend ==
  /\ pc = "walk"
  /\ pos <= Len(fs[letter])
  /\ fs[letter][pos].kind # "err"
  /\ platform' = Some(PlatformValue)
  /\ out' = report(EntryAt(letter, pos)) \o out
  /\ pos' = pos + 1
  /\ UNCHANGED <<fs, letter, pc, probe, verdict>>

\* The walk yields an entry: is_allowed forces PLATFORM (GetUserNameW
\* succeeds, or PLATFORM is already there); a rejected entry is pruned with
\* its subtree, an allowed one is classified and reported.
VisitEntry ==
  /\ pc = "walk"
  /\ pos <= Len(fs[letter])
  /\ fs[letter][pos].kind # "err"
  /\ platform' = Some(PlatformValue)
  /\ LET e == EntryAt(letter, pos)
     IN IF is_allowed(e, PlatformValue)
        THEN /\ out' = out \o report(e)
             /\ pos' = pos + 1
        ELSE /\ out' = out
             /\ pos' = IF e.is_dir THEN AfterSubtree(fs[letter], pos) ELSE pos + 1
  /\ UNCHANGED <<fs, letter, pc, probe, verdict>>

\* Variant in which PLATFORM is first needed only after the line is printed.
PlatformPanicAfterPrint ==
  /\ pc = "walk"
  /\ pos <= Len(fs[letter])
  /\ fs[letter][pos].kind # "err"
  /\ platform = None
  /\ pc' = "panicked"
  /\ out' = out \o <<path_display(EntryAt(letter, pos)) \o " # ">>
  /\ UNCHANGED <<fs, platform, letter, pos, probe, verdict>>

\* The walk yields an entry while PLATFORM is not yet initialised and
\* GetUserNameW returns 0: the initialiser panics inside the predicate.
PlatformPanic ==
  /\ pc = "walk"
  /\ pos <= Len(fs[letter])
  /\ fs[letter][pos].kind # "err"
  /\ platform = None
  /\ pc' = "panicked"
  /\ UNCHANGED <<fs, platform, letter, pos, out, probe, verdict>>

\* The walk is exhausted: scan_drive returns Ok(()) and main moves on.
ScanDriveReturn ==
  /\ pc = "walk"
  /\ pos > Len(fs[letter])
  /\ pc' = "main"
  /\ letter' = letter + 1
  /\ pos' = 0
  /\ UNCHANGED <<fs, platform, out, probe, verdict>>

\* main: every letter has been scanned; return Ok(()).
MainReturn ==
  /\ pc = "main"
  /\ letter > NumDrives
  /\ pc' = "done"
  /\ UNCHANGED <<fs, platform, letter, pos, out, probe, verdict>>

Next ==
  \/ ScanDriveStart
  \/ WalkError
  \/ VisitEntry
  \/ PlatformPanic
  \/ ScanDriveReturn
  \/ MainReturn

Spec == Init /\ [][Next]_vars

\* -------------------------------------------------- classifying one entry
\* Extensions tried after the stem "a.": the table, near misses, letter cases.
ProbeExtensions ==
  { <<"x","l","s","l">>, <<"x","l","s">>, <<"x","l","s","x">>,
    <<"c","s","v">>, <<"t","x","t">>, <<"l","o","g">>,
    <<"p","d","f">>, <<"r","t","f">>, <<"o","d","t">>,
    <<"x","p","s">>, <<"w","p","s">>, <<"d","o","t","x">>,
    <<"d","o","t","m">>, <<"d","o","c","x">>, <<"d","o","c","m">>,
    <<"d","o","c">>, <<"d","b">>, <<"d","u","m","p">>,
    <<"s","q","l","i","t","e">>, <<"s","q","l","i","t","e","3">>, <<"s","q","l">>,
    <<"m","y","s","q","l">>, <<"p","g","s","q","l">>, <<"p","d","b">>,
    <<"y","a","m","l">>, <<"j","s","o","n">>, <<"i","n","i">>,
    <<"z","i","p">>, <<"r","a","r">>, <<"e","n","v">>,
    <<"y","m","l">>, <<"t","s","v">>, <<"e","x","e">>,
    <<"T","X","T">>, <<"P","d","f">>, <<"C","S","V">>,
    <<"C","s","v">>, <<"X","L","S","X">>, <<"X","l","s">>,
    <<"D","o","c","X">>, <<"S","Q","L","i","t","e","3">>, <<"R","A","R">>,
    <<>> }

\* Names without a usable extension, dot files and VCS markers.
ProbeSpecialNames ==
  { <<".","e","n","v">>, <<".","E","N","V">>, <<".","E","n","v">>,
    <<"s","e","c","r","e","t","s",".","e","n","v">>,
    <<".","e","n","v",".","t","x","t">>,
    <<"a",".","e","n","v",".","c","s","v">>,
    <<".","c","s","v">>, <<".","t","x","t">>, <<"a">>,
    <<".","g","i","t">>, <<".","G","I","T">>,
    <<".","s","v","n">>, <<".","S","V","N">>,
    <<".","g","i","t","i","g","n","o","r","e">>,
    <<"a",".","b",".","p","d","f">>, <<"g","i","t">>,
    <<"W","i","n","d","o","w","s">> }

ProbeNames == {<<"a", ".">> \o x : x \in ProbeExtensions} \cup ProbeSpecialNames

CsvProbeNames ==
  { <<"a",".","c","s","v">>, <<"a",".","C","S","V">>, <<"a",".","C","s","v">>,
    <<"a",".","e","n","v",".","c","s","v">> }

ContentChars == {",", "\t", ":", ";", "|", " ", NUL, "a"}
RunLens == {1, 2, TAKE_LIMIT - 1}
Runs == {<<c, n>> : c \in ContentChars, n \in RunLens}
Contents ==
  {ReadableText(r) : r \in UNION {[1..k -> Runs] : k \in 0..MaxRuns}}
    \cup {Unreadable}
SmallContents == {Empty, Unreadable, ReadableText(<< <<",", 2>> >>)}

ProbeEntries ==
  {[letter |-> "C", comps |-> <<n>>, is_dir |-> d, content |-> c] :
     n \in ProbeNames, d \in BOOLEAN, c \in SmallContents}
  \cup {[letter |-> "C", comps |-> <<n>>, is_dir |-> FALSE, content |-> c] :
     n \in CsvProbeNames, c \in Contents}
  \cup {[letter |-> "C", comps |-> <<>>, is_dir |-> TRUE, content |-> Empty]}

InitProbe ==
  /\ fs = [d \in Drives |-> ImgAbsent]
  /\ platform = None
  /\ letter = 1
  /\ pos = 0
  /\ out = <<>>
  /\ pc = "probe"
  /\ probe \in ProbeEntries
  /\ verdict = None

\* entry.classify() followed by the match and println of scan_drive's loop
\* body, applied to the probe.
ClassifyProbe ==
  /\ pc = "probe"
  /\ verdict = None
  /\ verdict' = Some([class |-> classify(probe), lines |-> report(probe)])
  /\ UNCHANGED <<fs, platform, letter, pos, out, pc, probe>>

NextProbe == ClassifyProbe

SpecProbe == InitProbe /\ [][NextProbe]_vars

\* ================================================================== claims
\* Helpers for stating the claims about one classified entry.
Classified == verdict # None
ProbeIsFile == ~probe.is_dir
\* A name or extension as text with the letters A-Z folded to a-z, stated
\* apart from the classifier's own lowercasing.
RECURSIVE Folded(_)
Folded(name) ==
  IF name = <<>> THEN ""
  ELSE LET c == Head(name)
           ks == {k \in 1..26 : AsciiUpper[k] = c}
       IN (IF ks = {} THEN c ELSE AsciiLower[CHOOSE k \in ks : TRUE])
            \o Folded(Tail(name))
FoldedOpt(opt) == IF opt = None THEN None ELSE Some(Folded(opt[1]))

ProbeName == FoldedOpt(file_name(probe))
ProbeExt == FoldedOpt(extension(probe))
ProbeIsCsvFile == ProbeIsFile /\ ProbeName # Some(".env") /\ ProbeExt = Some("csv")

RealDelimiters == <<",", "\t", ":", ";", "|", " ">>

\* Occurrences of c in the first TAKE_LIMIT code points of the probe's
\* content, an unreadable file counting as empty.
Occurrences(c) ==
  CountTake(IF probe.content.readable THEN probe.content.runs ELSE <<>>,
            TAKE_LIMIT, c)

\* The highest count among the real delimiters, and the earliest of them
\* that attains it.
TopRealCount ==
  CHOOSE m \in {Occurrences(RealDelimiters[i]) : i \in 1..6} :
    \A i \in 1..6 : Occurrences(RealDelimiters[i]) <= m
EarliestTopReal ==
  RealDelimiters[CHOOSE i \in 1..6 :
    /\ Occurrences(RealDelimiters[i]) = TopRealCount
    /\ \A j \in 1..(i - 1) : Occurrences(RealDelimiters[j]) < TopRealCount]
TopRealIsTied ==
  Cardinality({i \in 1..6 : Occurrences(RealDelimiters[i]) = TopRealCount}) >= 2

\* C4: for every .csv file the delimiter is the candidate with the highest
\* count, the sentinel counting exactly 1 and each real delimiter its
\* occurrences in the first 50,000 code points, ties going to the earliest
\* candidate (sentinel first).
C4_SentinelCountsOne ==
  (Classified /\ ProbeIsCsvFile) =>
    verdict[1].class =
      <<"File", "Spreadsheet", "Csv",
        IF TopRealCount > 1 THEN EarliestTopReal ELSE NUL>>

\* C5 as stated: away from the name ".env", the class is read off the listed
\* table, and every extension the table does not list gives Regular.
ListedTable(ext) ==
  IF ext \in {Some("txt"), Some("log")} THEN <<"Document", "Text">>
  ELSE IF ext = Some("pdf") THEN <<"Document", "Pdf">>
  ELSE IF ext \in {Some("rtf"), Some("odt"), Some("xps"), Some("wps"), Some("dotx"),
                   Some("dotm"), Some("docx"), Some("docm"), Some("doc")}
       THEN <<"Document", "Word">>
  ELSE IF ext \in {Some("db"), Some("dump")} THEN <<"Database", "Db">>
  ELSE IF ext \in {Some("sqlite"), Some("sqlite3")} THEN <<"Database", "Sqlite">>
  ELSE IF ext \in {Some("sql"), Some("mysql"), Some("pgsql")} THEN <<"Database", "Sql">>
  ELSE IF ext = Some("pdb") THEN <<"Database", "Pdb">>
  ELSE IF ext = Some("yaml") THEN <<"Configuration", "Yaml">>
  ELSE IF ext = Some("json") THEN <<"Configuration", "Json">>
  ELSE IF ext = Some("ini") THEN <<"Configuration", "Ini">>
  ELSE IF ext = Some("zip") THEN <<"Archive", "Zip">>
  ELSE IF ext = Some("rar") THEN <<"Archive", "Rar">>
  ELSE <<"Regular">>

C5_UnlistedIsRegular ==
  (Classified /\ ProbeIsFile /\ ProbeName # Some(".env")) =>
    verdict[1].class = <<"File">> \o ListedTable(ProbeExt)

\* C5, amended: the listed table holds for every extension except csv and
\* xlsl; xlsl gives Spreadsheet(Excel) and csv gives Spreadsheet(Csv(d)) with
\* d one of the seven candidates.
C5_TableWithSpreadsheets ==
  (Classified /\ ProbeIsFile /\ ProbeName # Some(".env")) =>
    IF ProbeExt = Some("csv")
    THEN \E d \in {NUL} \cup {RealDelimiters[i] : i \in 1..6} :
           verdict[1].class = <<"File", "Spreadsheet", "Csv", d>>
    ELSE IF ProbeExt = Some("xlsl")
    THEN verdict[1].class = <<"File", "Spreadsheet", "Excel">>
    ELSE verdict[1].class = <<"File">> \o ListedTable(ProbeExt)

C5_Witness ==
  /\ Classified
  /\ probe.comps = << <<"a",".","D","o","c","X">> >>
  /\ ProbeIsFile
  /\ verdict[1].class = <<"File", "Document", "Word">>

\* C6: a file with extension xls or xlsx, in any letter case, is classified
\* Spreadsheet(Excel) and reported with the label excel.
C6_ExcelFamily ==
  (Classified /\ ProbeIsFile /\ ProbeName # Some(".env")
     /\ ProbeExt \in {Some("xls"), Some("xlsx")}) =>
    /\ verdict[1].class = <<"File", "Spreadsheet", "Excel">>
    /\ verdict[1].lines = << path_display(probe) \o " # excel" >>

\* C10 as stated: when several real delimiters share the highest real count
\* and that count is nonzero, the earliest of them is returned and the file
\* is reported with it.
C10_TiedRealsEarliestWins ==
  (Classified /\ ProbeIsCsvFile /\ TopRealIsTied /\ TopRealCount > 0) =>
    /\ verdict[1].class = <<"File", "Spreadsheet", "Csv", EarliestTopReal>>
    /\ verdict[1].lines =
         << path_display(probe) \o " # csv('" \o EarliestTopReal \o "')" >>

\* C10, amended: the earliest tied real delimiter is returned, and the file
\* reported with it, when the shared count exceeds the sentinel's count
\* (1 plus the U+0000 code points among the first 50,000); otherwise the
\* sentinel is returned and the file is not reported.
C10_TiedRealsAboveSentinel ==
  (Classified /\ ProbeIsCsvFile /\ TopRealIsTied) =>
    IF TopRealCount > 1 + Occurrences(NUL)
    THEN /\ verdict[1].class = <<"File", "Spreadsheet", "Csv", EarliestTopReal>>
         /\ verdict[1].lines =
              << path_display(probe) \o " # csv('" \o EarliestTopReal \o "')" >>
    ELSE /\ verdict[1].class = <<"File", "Spreadsheet", "Csv", NUL>>
         /\ verdict[1].lines = <<>>

C10_Witness ==
  /\ Classified
  /\ ProbeIsCsvFile
  /\ probe.content = ReadableText(<< <<";", 2>>, <<"\t", 2>> >>)
  /\ verdict[1].lines = << path_display(probe) \o " # csv('\t')" >>

\* ------------------------------------------------- claims about the scan
OutSet == {out[k] : k \in 1..Len(out)}

\* Every label the report can print, and the empty one.
Labels ==
  {"git", "svn", "dotenv", "excel", "pdf", "txt", "word", "sqlite", "sql",
   "db", "pdb", "yaml", "json", "ini", "zip", "rar", ""}
  \cup {"csv('" \o c \o "')" : c \in {NUL} \cup {RealDelimiters[i] : i \in 1..6}}

\* Every line that could be about entry e.
LinesAbout(e) == LET prefix == path_display(e) \o " # " IN {prefix \o l : l \in Labels}

\* Item i of drive d has been handed out by the walk already.
Processed(d, i) ==
  \/ d < letter
  \/ d = letter /\ pc \in {"walk", "panicked"} /\ i < pos

\* Item i and the directories above it.
RECURSIVE Chain(_, _)
Chain(img, i) ==
  IF img[i].depth = 0 THEN {i} ELSE {i} \cup Chain(img, Parent(img, i))

\* Item i is an entry the filtered walk yields: no error, and neither it nor
\* a directory above it is rejected by the predicate.
Yielded(d, i) ==
  /\ fs[d][i].kind # "err"
  /\ \A j \in Chain(fs[d], i) : is_allowed(EntryAt(d, j), PlatformValue)

Items == {<<d, i>> \in Drives \X (1..7) : i <= Len(fs[d])}

\* C1: no line is printed for a directory located at a blacklist path of
\* PLATFORM, nor for anything below it.
C1_BlacklistedSubtreeSilent ==
  \A x \in Items : \A y \in Items :
    ( /\ x[1] = y[1]
      /\ fs[x[1]][x[2]].kind = "dir"
      /\ path_display(EntryAt(x[1], x[2]))
           \in {PlatformValue.sys_dir, PlatformValue.tmp_dir}
      /\ x[2] \in Chain(fs[y[1]], y[2]) )
    => LinesAbout(EntryAt(y[1], y[2])) \cap OutSet = {}

IsTopLevelFile(x) == fs[x[1]][x[2]].kind = "file" /\ fs[x[1]][x[2]].depth = 1

\* C2 as stated: a file secrets.env directly under a scanned root gets the
\* line "<root>secrets.env # dotenv".
C2_SecretsEnvReported ==
  \A x \in Items :
    ( /\ Processed(x[1], x[2])
      /\ IsTopLevelFile(x)
      /\ fs[x[1]][x[2]].name = <<"s","e","c","r","e","t","s",".","e","n","v">> )
    => (path_display(EntryAt(x[1], x[2])) \o " # dotenv") \in OutSet

\* C2, amended: a file directly under a scanned root whose whole name is
\* .env, in any letter case, gets the line "<root><name> # dotenv"; a file
\* named secrets.env gets no line.
C2_DotEnvReported ==
  \A x \in Items :
    (Processed(x[1], x[2]) /\ IsTopLevelFile(x)) =>
      LET e == EntryAt(x[1], x[2])
      IN /\ FoldedOpt(file_name(e)) = Some(".env")
              => (path_display(e) \o " # dotenv") \in OutSet
         /\ fs[x[1]][x[2]].name = <<"s","e","c","r","e","t","s",".","e","n","v">>
              => LinesAbout(e) \cap OutSet = {}

C2_Witness ==
  /\ pc = "done"
  /\ fs[1] = ImgSecrets
  /\ "A:\\.env # dotenv" \in OutSet

\* The four classifications the claim names as silent.
SilentClasses ==
  { <<"Dir", "Regular">>, <<"File", "Regular">>, <<"File", "Document", "Text">>,
    <<"File", "Spreadsheet", "Csv", NUL>> }

\* What is printed once the scans so far are over.
AfterScansExact ==
  LET visited == {x \in Items : Processed(x[1], x[2]) /\ Yielded(x[1], x[2])}
      loud == {x \in visited : classify(EntryAt(x[1], x[2])) \notin SilentClasses}
      LineOf(x) == path_display(EntryAt(x[1], x[2])) \o " # "
                     \o Display(classify(EntryAt(x[1], x[2])))
  IN /\ \A x \in visited \ loud : LinesAbout(EntryAt(x[1], x[2])) \cap OutSet = {}
     /\ \A x \in loud :
          /\ Cardinality({k \in 1..Len(out) : out[k] = LineOf(x)}) = 1
          /\ LinesAbout(EntryAt(x[1], x[2])) \cap OutSet = {LineOf(x)}
     /\ OutSet \subseteq {LineOf(x) : x \in loud}

\* C3: the step that handles a yielded entry prints nothing when its class
\* is one of the four silent ones and otherwise prints the one line
\* "<path> # <label>", and no other step prints; so whenever a scan is over,
\* a visited entry of a silent class has no line, a visited entry of any
\* other class has its line exactly once and no line with another label,
\* and every line printed is the line of such an entry.
C3_SuppressionExact ==
  /\ [][IF pc = "walk" /\ pc' = "walk" /\ pos' # pos
           /\ Yielded(letter, pos)
        THEN LET e == EntryAt(letter, pos)
                 c == classify(e)
             IN out' = IF c \in SilentClasses THEN out
                       ELSE Append(out, path_display(e) \o " # " \o Display(c))
        ELSE out' = out]_vars
  /\ [](pc \in {"main", "done"} => AfterScansExact)

C3_Witness ==
  /\ pc = "done"
  /\ fs[2] = ImgSheets
  /\ "B:\\book.xlsl # excel" \in OutSet
  /\ "B:\\.SVN # svn" \in OutSet
  /\ Len(out) = 2

\* The lines of the first n items of drive d, in walk order.
RECURSIVE LinesUpTo(_, _)
LinesUpTo(d, n) ==
  IF n <= 0 THEN <<>>
  ELSE LinesUpTo(d, n - 1)
         \o (IF Yielded(d, n) THEN report(EntryAt(d, n)) ELSE <<>>)

\* The lines of drives 1..k, drive by drive.
RECURSIVE DrivesUpTo(_)
DrivesUpTo(k) ==
  IF k <= 0 THEN <<>>
  ELSE DrivesUpTo(k - 1) \o LinesUpTo(k, Len(fs[k]))

ExpectedOut ==
  DrivesUpTo(letter - 1)
    \o (IF pc \in {"walk", "panicked"} THEN LinesUpTo(letter, pos - 1) ELSE <<>>)

\* C7: at every moment the output is the lines of the drives already
\* scanned, in letter order, followed by the lines of the entries the
\* current walk has yielded so far, in walk order; each step leaves what was
\* printed in place and adds at most one line at the end.
C7_AppendOnlyInOrder ==
  /\ [](out = ExpectedOut)
  /\ [][/\ Len(out') \in {Len(out), Len(out) + 1}
        /\ SubSeq(out', 1, Len(out)) = out]_vars

C7_Witness ==
  /\ pc = "done"
  /\ fs[1] = ImgSecrets /\ fs[2] = ImgWindows
  /\ Len(out) >= 6
  /\ out[1] = "A:\\.env # dotenv"
  /\ out[3] = "B:\\Windows\\.ENV # dotenv"

\* C8: a failed identity lookup aborts the run with nothing printed; any
\* printed line implies PLATFORM was initialised; a run that ends normally
\* has printed the full report of every root.
C8_AbortBeforeOutput ==
  /\ pc = "panicked" => (out = <<>> /\ platform = None)
  /\ out # <<>> => platform = Some(PlatformValue)
  /\ pc = "done" => out = DrivesUpTo(NumDrives)

C8_Witness ==
  /\ pc = "panicked"
  /\ letter = 2
  /\ fs[1] = ImgAbsent
  /\ fs[2] = ImgErrors
  /\ pos = 1

AtWalkError ==
  pc = "walk" /\ pos <= Len(fs[letter]) /\ fs[letter][pos].kind = "err"

\* C9: a step of the walk that hits an error prints nothing and leaves the
\* scan of the same root running at the next entry; when the run ends, every
\* root has been scanned and every entry that is not an error has its line,
\* errors before or after it notwithstanding, and the errors have none.
C9_ErrorsSkipped ==
  /\ [][AtWalkError =>
          (pc' = "walk" /\ pos' = pos + 1 /\ letter' = letter /\ out' = out)]_vars
  /\ [](pc = "done" =>
          /\ letter = NumDrives + 1
          /\ \A x \in Items :
               IF fs[x[1]][x[2]].kind = "err"
               THEN LinesAbout(EntryAt(x[1], x[2])) \cap OutSet = {}
               ELSE \A k \in 1..Len(report(EntryAt(x[1], x[2]))) :
                      report(EntryAt(x[1], x[2]))[k] \in OutSet)

C9_Witness ==
  /\ pc = "done"
  /\ fs[1] = ImgAbsent /\ fs[2] = ImgErrors /\ fs[3] = ImgSecrets
  /\ out = << "B:\\data.csv # csv(';')", "B:\\config.json # json",
              "C:\\.env # dotenv", "C:\\report.pdf # pdf" >>

====
